---- MODULE Spec2Model ----
(***************************************************************************)
(* Model of the offline collision-geometry build pipeline of Sector3X:     *)
(*   AssetsBuild/generate_convex.py    (VHACD hulls   -> .chullbin, CVXH)  *)
(*   AssetsBuild/generate_meshshape.py (decimated mesh -> .meshbin, JMSH)  *)
(*                                                                         *)
(* A hull is a record [points, faces]: points is the vertex array (one     *)
(* entry per vertex; the entry is an opaque position id), faces is the     *)
(* flat 0-based index array (faces_flat).  Sequences are 1-based, so the   *)
(* vertex with numpy index k is points[k + 1].                             *)
(***************************************************************************)
EXTENDS Integers, Sequences, FiniteSets, TLC

VARIABLES
    \* ---- clamp_hull_vertex_count applied to one hull -------------------
    cpc,        \* "idle" | "input" | "clamped" | "reclamped"
    c_in,       \* the hull passed in
    c_max,      \* the max_vertices argument
    c_out,      \* result of the first call
    c_out2,     \* result of clamping c_out again
    \* ---- pick_top_hulls applied to one candidate list ------------------
    ppc,        \* "idle" | "input" | "picked"
    p_in,       \* outputs (list of hulls)
    p_k,        \* max_hulls
    p_out,      \* returned list
    \* ---- decide_target_triangles ---------------------------------------
    tpc,        \* "idle" | "input" | "decided"
    t_config,   \* CONFIG
    t_orig,     \* orig_triangles
    t_out,      \* returned target
    \* ---- one run of main() of one pipeline -----------------------------
    pipeline,   \* "convex" | "meshshape"
    CONFIG,     \* args.config.lower()
    tree,       \* files found by os.walk(MODEL_DIR), in walk order
    run,        \* "first" | "again": the script is run once, then once more
    pos,        \* number of walk entries already taken
    pc,         \* "idle" | "walk" (in the os.walk loop) | "done" | "aborted"
    fs,         \* destination path -> artifact (or NoFile)
    fs0,        \* fs as it was when the run started
    now,        \* wall clock used for the mtime of a write
    log,        \* per walk entry: what was printed / called for it
    exitcode,   \* "running" | "ok" | "exception"
    \* ---- simplify_mesh applied to one mesh -----------------------------
    spc,        \* "idle" | "input" | "simplified"
    s_config,   \* CONFIG
    s_mesh,     \* the mesh passed in
    s_dec,      \* what the try-block does: raises, or the decimated mesh
    s_out       \* the mesh returned

vars == <<cpc, c_in, c_max, c_out, c_out2, ppc, p_in, p_k, p_out,
          tpc, t_config, t_orig, t_out,
          pipeline, CONFIG, tree, run, pos, pc, fs, fs0, now, log, exitcode,
          spc, s_config, s_mesh, s_dec, s_out>>

clampVars == <<cpc, c_in, c_max, c_out, c_out2>>
pickVars  == <<ppc, p_in, p_k, p_out>>
targetVars == <<tpc, t_config, t_orig, t_out>>
runVars   == <<pipeline, CONFIG, tree, run, pos, pc, fs, fs0, now, log,
               exitcode>>
simpVars  == <<spc, s_config, s_mesh, s_dec, s_out>>

----------------------------------------------------------------------------
(* Generic helpers                                                         *)

Min(a, b) == IF a <= b THEN a ELSE b
Max(a, b) == IF a >= b THEN a ELSE b

Range(s) == {s[i] : i \in 1..Len(s)}

\* The largest element of a non-empty finite set of integers.
SetMax(S) == CHOOSE x \in S : \A y \in S : y <= x

\* numpy fancy indexing a[idx] for a 1-D array a and an index array idx.
Take(a, idx) == [j \in 1..Len(idx) |-> a[idx[j] + 1]]

----------------------------------------------------------------------------
(* generate_convex.py: clamp_hull_vertex_count                             *)

MAX_VERTICES_PER_HULL == 256

Hull(points, faces) == [points |-> points, faces |-> faces]

\* What a call returns: a hull, or the fact that it raised.
Returned(points, faces) == [raised |-> FALSE, points |-> points, faces |-> faces]
Raised == [raised |-> TRUE, points |-> <<>>, faces |-> <<>>]

\* Variant: the distinct indices in order of first appearance, not sorted.
RECURSIVE np_unique_unsorted(_)
np_unique_unsorted(faces_flat) ==
    IF faces_flat = <<>> THEN <<>>
    ELSE LET front == np_unique_unsorted(SubSeq(faces_flat, 1, Len(faces_flat) - 1))
             last  == faces_flat[Len(faces_flat)]
         IN  IF last \in Range(front) THEN front ELSE Append(front, last)

\* np.unique(faces): the distinct indices (all >= 0: the array is uint32),
\* ascending.
np_unique(faces_flat) ==
    IF faces_flat = <<>> THEN <<>>
    ELSE LET present == Range(faces_flat)
             top == SetMax(present)
         IN  SelectSeq([i \in 1..(top + 1) |-> i - 1], LAMBDA x : x \in present)

\* Rows (1-based triangle numbers) of faces = faces_flat.reshape(-1, 3).
TriRows(faces_flat) == 1..(Len(faces_flat) \div 3)
Corner(faces_flat, t, c) == faces_flat[3 * (t - 1) + c]

\* Variant: np.any instead of np.all, one kept corner keeps the row.
tri_keep_any(faces_flat, keep) ==
    LET kept == Range(keep)
    IN  {t \in TriRows(faces_flat) :
            \E c \in 1..3 : Corner(faces_flat, t, c) \in kept}

\* np.all(np.isin(faces, keep), axis=1): the rows with all corners kept.
tri_keep(faces_flat, keep) ==
    LET kept == Range(keep)
    IN  {t \in TriRows(faces_flat) :
            \A c \in 1..3 : Corner(faces_flat, t, c) \in kept}

\* faces[rows], flattened again: the corners of the rows, in order.
faces_of_rows(faces_flat, rows) ==
    LET at == SelectSeq([i \in 1..Len(faces_flat) |-> i],
                        LAMBDA i : ((i - 1) \div 3) + 1 \in rows)
    IN  [j \in 1..Len(at) |-> faces_flat[at[j]]]

\* remap = full(-1); remap[keep] = arange(len(keep))
remap_of(vcount, keep) ==
    LET kept == Range(keep)
    IN  [old \in 0..(vcount - 1) |->
            IF old \in kept
            THEN (CHOOSE j \in 1..Len(keep) : keep[j] = old) - 1
            ELSE -1]

\* Variant: every referenced vertex is kept, the budget is not applied.
clamp_keep_all(used, max_vertices) == used

\* keep = used when it fits, else used[:max_vertices].
clamp_keep(used, max_vertices) ==
    IF Len(used) <= max_vertices THEN used ELSE SubSeq(used, 1, max_vertices)

clamp_over_budget(points, faces_flat, max_vertices) ==
    LET vcount == Len(points)
        used   == np_unique(faces_flat)
        keep   == clamp_keep(used, max_vertices)
        rows   == IF Len(used) <= max_vertices
                  THEN TriRows(faces_flat)
                  ELSE tri_keep(faces_flat, keep)
        faces_kept == faces_of_rows(faces_flat, rows)
    IN  IF Len(faces_flat) % 3 # 0
        THEN Raised                      \* reshape(-1, 3) raises ValueError
        ELSE IF \E j \in 1..Len(keep) : keep[j] >= vcount
        THEN Raised                      \* points[keep] / remap[keep]: IndexError
        ELSE IF Len(used) > max_vertices /\ Len(faces_kept) = 0
        THEN Returned(Take(points, keep), <<>>)
        ELSE LET remap == remap_of(vcount, keep)
                 faces_mapped == [i \in 1..Len(faces_kept) |-> remap[faces_kept[i]]]
             IN  IF \E i \in 1..Len(faces_mapped) : faces_mapped[i] < 0
                 THEN Raised             \* assert (faces_mapped >= 0).all()
                 ELSE Returned(Take(points, keep), faces_mapped)

\* Variant: no early return, a hull within budget is compacted as well.
clamp_always_compacts(points, faces_flat, max_vertices) ==
    clamp_over_budget(points, faces_flat, max_vertices)


clamp_hull_vertex_count(points, faces_flat, max_vertices) ==
    IF Len(points) <= max_vertices
    THEN Returned(points, faces_flat)
    ELSE clamp_over_budget(points, faces_flat, max_vertices)

----------------------------------------------------------------------------
(* Inputs of the function-level specifications                             *)

MaxBudget == 2          \* small max_vertices arguments: 1..MaxBudget
MaxCount  == 3          \* small hull vertex counts of pick_top_hulls inputs
MaxPickLen == 3         \* candidate lists of up to MaxPickLen hulls
MaxTris   == 13400      \* orig_triangles ranges over 1..MaxTris

\* A fresh vertex array of n vertices; tag tells arrays of equal size apart.
MkPoints(tag, n) == [i \in 1..n |-> 1000 * tag + (i - 1)]

\* Index arrays over the index set I: none, any one triangle, or two
\* triangles whose corners are listed in ascending order.
TriLists(I) ==
    LET T == {<<a, b, c>> : a \in I, b \in I, c \in I}
        A == {t \in T : t[1] <= t[2] /\ t[2] <= t[3]}
    IN  {<<>>} \cup T \cup {t1 \o t2 : t1 \in A, t2 \in A}

\* Small hulls: every vertex count 0..MaxBudget+1 with the index arrays of
\* up to two triangles over 0..MaxBudget+1 (so indices may be out of range).
SmallHulls ==
    {Hull(MkPoints(0, n), f) : n \in 0..(MaxBudget + 1),
                               f \in TriLists(0..(MaxBudget + 1))}

\* Triangles (3k, 3k+1, 3k+2) covering the indices 0..n-1.
StripFaces(n) == [i \in 1..(3 * (n \div 3)) |-> i - 1]

\* Triangles (n-1, 2k, 2k+1): every triangle uses the last vertex.
FanFaces(n) ==
    [i \in 1..(3 * ((n - 1) \div 2)) |->
        IF i % 3 = 1 THEN n - 1
        ELSE IF i % 3 = 2 THEN 2 * ((i - 1) \div 3)
        ELSE 2 * ((i - 1) \div 3) + 1]

\* Hulls just over the real budget, as a decomposer that ignores
\* maxNumVerticesPerCH may return them.
BigFaces(n) ==
    {<<>>, StripFaces(n), FanFaces(n)}
    \cup {<<a, b, c>> : a \in {0, 1}, b \in {1, n - 2}, c \in {2, n - 1, n}}

BigHulls ==
    {Hull(MkPoints(0, n), f) :
        n \in {MAX_VERTICES_PER_HULL + 1, MAX_VERTICES_PER_HULL + 2},
        f \in BigFaces(MAX_VERTICES_PER_HULL + 2)}

ClampInputs ==
    {<<h, m>> : h \in SmallHulls, m \in 1..MaxBudget}
    \cup {<<h, MAX_VERTICES_PER_HULL>> : h \in BigHulls}

IdleClamp  == cpc = "idle" /\ c_in = Hull(<<>>, <<>>) /\ c_max = 0
              /\ c_out = Raised /\ c_out2 = Raised
IdlePick   == ppc = "idle" /\ p_in = <<>> /\ p_k = 0 /\ p_out = <<>>
IdleTarget == tpc = "idle" /\ t_config = "release" /\ t_orig = 0 /\ t_out = 0
IdleRun    == /\ pipeline = "convex" /\ CONFIG = "release" /\ tree = <<>>
              /\ run = "first"
              /\ pos = 0 /\ pc = "idle" /\ fs = <<>> /\ fs0 = <<>>
              /\ now = 0 /\ log = <<>> /\ exitcode = "ok"
IdleSimp   == /\ spc = "idle" /\ s_config = "release"
              /\ s_mesh = [verts |-> 0, used |-> 0, tris |-> 0]
              /\ s_dec = [raised |-> TRUE, simp |-> s_mesh]
              /\ s_out = s_mesh

----------------------------------------------------------------------------
(* SpecClamp: clamp_hull_vertex_count on one hull, then on its own output  *)

InitClamp ==
    /\ cpc = "input"
    /\ \E in \in ClampInputs : c_in = in[1] /\ c_max = in[2]
    /\ c_out = Raised /\ c_out2 = Raised
    /\ IdlePick /\ IdleTarget /\ IdleRun /\ IdleSimp

Clamp ==
    /\ cpc = "input"
    /\ c_out' = clamp_hull_vertex_count(c_in.points, c_in.faces, c_max)
    /\ cpc' = "clamped"
    /\ UNCHANGED <<c_in, c_max, c_out2, pickVars, targetVars, runVars, simpVars>>

ClampAgain ==
    /\ cpc = "clamped"
    /\ ~c_out.raised
    /\ c_out2' = clamp_hull_vertex_count(c_out.points, c_out.faces, c_max)
    /\ cpc' = "reclamped"
    /\ UNCHANGED <<c_in, c_max, c_out, pickVars, targetVars, runVars, simpVars>>

NextClamp == Clamp \/ ClampAgain

SpecClamp == InitClamp /\ [][NextClamp]_vars

\* Mesh invariant of the data model: every index < vertex count, and the
\* index array is a whole number of triangles.
WellFormed(h) ==
    /\ Len(h.faces) % 3 = 0
    /\ \A i \in 1..Len(h.faces) : h.faces[i] >= 0 /\ h.faces[i] < Len(h.points)

----------------------------------------------------------------------------
(* generate_convex.py: pick_top_hulls                                      *)

\* Variant: an unstable sort, equal keys end up in reverse order.
InsertDescUnstable(sorted, h) ==
    LET n == Len(sorted)
        before == {i \in 1..n : Len(sorted[i].points) > Len(h.points)}
        at == IF before = {} THEN 0
              ELSE CHOOSE i \in before : \A j \in before : j <= i
    IN  SubSeq(sorted, 1, at) \o <<h>> \o SubSeq(sorted, at + 1, n)

\* sorted(..., reverse=True) is stable: an element goes after every element
\* already placed whose key is >= its own.
InsertDesc(sorted, h) ==
    LET n == Len(sorted)
        before == {i \in 1..n : Len(sorted[i].points) >= Len(h.points)}
        at == IF before = {} THEN 0
              ELSE CHOOSE i \in before : \A j \in before : j <= i
    IN  SubSeq(sorted, 1, at) \o <<h>> \o SubSeq(sorted, at + 1, n)

RECURSIVE SortedByVertexCountDesc(_)
SortedByVertexCountDesc(outputs) ==
    IF outputs = <<>> THEN <<>>
    ELSE InsertDesc(SortedByVertexCountDesc(SubSeq(outputs, 1, Len(outputs) - 1)),
                    outputs[Len(outputs)])

\* outputs[:max_hulls] for max_hulls >= 0
pick_top_hulls(outputs, max_hulls) ==
    SubSeq(SortedByVertexCountDesc(outputs), 1, Min(max_hulls, Len(outputs)))

----------------------------------------------------------------------------
(* SpecPick: pick_top_hulls on one candidate list                          *)

\* The vertex counts of the candidates: the small ones and the two of the
\* documented example.
PickCounts == (1..MaxCount) \cup {50, 80}

CountLists == UNION {[1..n -> PickCounts] : n \in 0..MaxPickLen}

\* Candidate i has its own vertex array, so equal-sized hulls stay distinct.
HullsOfCounts(cs) == [i \in 1..Len(cs) |-> Hull(MkPoints(i, cs[i]), <<>>)]

InitPick ==
    /\ ppc = "input"
    /\ \E cs \in CountLists : p_in = HullsOfCounts(cs)
    /\ p_k \in 0..(MaxPickLen + 1)
    /\ p_out = <<>>
    /\ IdleClamp /\ IdleTarget /\ IdleRun /\ IdleSimp

Pick ==
    /\ ppc = "input"
    /\ p_out' = pick_top_hulls(p_in, p_k)
    /\ ppc' = "picked"
    /\ UNCHANGED <<p_in, p_k, clampVars, targetVars, runVars, simpVars>>

NextPick == Pick

SpecPick == InitPick /\ [][NextPick]_vars

----------------------------------------------------------------------------
(* generate_meshshape.py: decide_target_triangles                          *)

TARGET_TRIS_DEBUG_MAX   == 8000
TARGET_TRIS_RELEASE_MAX == 3000
TARGET_TRIS_RELEASE_MIN == 500

\* Variant: round() to the nearest integer instead of int().
RoundOfProduct(n, num, den) == (2 * n * num + den) \div (2 * den)

\* int(n * 0.6) and int(n * 0.25) for n >= 0.  0.25 is exact in binary.  The
\* double nearest 0.6 is 0.6 * (1 - 3.7e-17): for n a multiple of 5 the exact
\* product lies 3.7e-17 (relative) below the integer 3n/5, which is less than
\* half the spacing of the doubles there (at least 5.5e-17 relative), so the
\* product rounds to that integer; any other product is at least 0.2 away
\* from an integer.  int() truncates.
IntOfProduct(n, num, den) == (n * num) \div den

decide_target_triangles(config, orig_triangles) ==
    IF config = "debug"
    THEN LET target == IntOfProduct(orig_triangles, 6, 10)
         IN  Max(1, Min(target, TARGET_TRIS_DEBUG_MAX))
    ELSE LET target == IntOfProduct(orig_triangles, 25, 100)
             target2 == Max(TARGET_TRIS_RELEASE_MIN,
                            Min(target, TARGET_TRIS_RELEASE_MAX))
         IN  Max(1, target2)

----------------------------------------------------------------------------
(* SpecTarget: decide_target_triangles on one triangle count               *)

Configs == {"debug", "release"}

InitTarget ==
    /\ tpc = "input"
    /\ t_config \in Configs
    /\ t_orig \in 1..MaxTris
    /\ t_out = 0
    /\ IdleClamp /\ IdlePick /\ IdleRun /\ IdleSimp

Decide ==
    /\ tpc = "input"
    /\ t_out' = decide_target_triangles(t_config, t_orig)
    /\ tpc' = "decided"
    /\ UNCHANGED <<t_config, t_orig, clampVars, pickVars, runVars, simpVars>>

NextTarget == Decide

SpecTarget == InitTarget /\ [][NextTarget]_vars

----------------------------------------------------------------------------
(* Model tree, destination paths and artifacts                             *)

MaxFiles == 2           \* os.walk yields at most MaxFiles files
MaxMtime == 2           \* modification times before the run are 1..MaxMtime

SUPPORTED_EXT == {".glb", ".gltf", ".fbx", ".obj"}

\* str.lower() on the suffixes that occur in the model tree.
lower(s) ==
    CASE s = ".GLB" -> ".glb"
      [] s = ".OBJ" -> ".obj"
      [] OTHER      -> s

\* A path relative to MODEL_DIR: directory components, stem, final suffix.
RelPath(dir, stem, suffix) == [dir |-> dir, stem |-> stem, suffix |-> suffix]

\* PurePath.with_suffix: the final suffix is replaced, the rest is kept.
with_suffix(rel, suffix) == [rel EXCEPT !.suffix = suffix]

OUT_DIR(pl)  == IF pl = "convex" THEN "generated/convex" ELSE "generated/meshshape"
OUT_EXT(pl)  == IF pl = "convex" THEN ".chullbin" ELSE ".meshbin"

\* dst = OUT_DIR / rel.with_suffix(...)
DstOf(pl, rel) == [out |-> OUT_DIR(pl), rel |-> with_suffix(rel, OUT_EXT(pl))]

\* Files that may lie under assets/model.  os.walk is top-down: the files of
\* the root directory come before those of a subdirectory.
RootFiles == {RelPath(<<>>, "rock", ".glb"), RelPath(<<>>, "rock", ".OBJ"),
              RelPath(<<>>, "notes", ".txt")}
SubFiles  == {RelPath(<<"sub">>, "rock", ".glb")}
ModelFiles == RootFiles \cup SubFiles

WalkOrders ==
    {w \in UNION {[1..n -> ModelFiles] : n \in 0..MaxFiles} :
        /\ \A i, j \in 1..Len(w) : i # j => w[i] # w[j]
        /\ \A i, j \in 1..Len(w) : (i < j /\ w[i] \in SubFiles) => w[j] \in SubFiles}

NoFile == [exists |-> FALSE]

\* A CVXH container: header fields and, per hull record, the two counts.
CvxhFile(mtime, hullCount, records) ==
    [exists |-> TRUE, mtime |-> mtime, magic |-> "CVXH", version |-> 1,
     hullCount |-> hullCount, records |-> records]

\* A JMSH container.
JmshFile(mtime, vcount, icount) ==
    [exists |-> TRUE, mtime |-> mtime, magic |-> "JMSH", version |-> 1,
     vertexCount |-> vcount, indexCount |-> icount]

HullRecord(h) == [vertexCount |-> Len(h.points), indexCount |-> Len(h.faces)]

\* An artifact left by an earlier build of the same pipeline.
EarlierArtifact(pl, mtime) ==
    IF pl = "convex"
    THEN CvxhFile(mtime, 1, <<[vertexCount |-> 3, indexCount |-> 3]>>)
    ELSE JmshFile(mtime, 3, 3)

\* tree entries are [rel, mtime].
Sources(w) == {i \in 1..Len(w) : lower(w[i].rel.suffix) \in SUPPORTED_EXT}
DstPaths(pl, w) == {DstOf(pl, w[i].rel) : i \in 1..Len(w)}

\* Variant: an artifact exactly as old as its source counts as stale.
UpToDateStrict(files, dst, src) ==
    files[dst].exists /\ files[dst].mtime > src.mtime

\* dst.exists() and dst.stat().st_mtime >= src.stat().st_mtime
UpToDate(files, dst, src) ==
    files[dst].exists /\ files[dst].mtime >= src.mtime

----------------------------------------------------------------------------
(* What the external libraries may hand back                               *)

\* Candidate hull lists of mesh.convex_decomposition (trimesh / VHACD).
\* maxNumVerticesPerCH is a request: clamp_hull_vertex_count exists for the
\* hulls that exceed it, compacts hulls with unreferenced vertices (hSparse)
\* and asserts on its own remap of inconsistent input (hBad: an index past
\* the vertex array).
hTri(tag)    == Hull(MkPoints(tag, 3), <<0, 1, 2>>)
hQuad(tag)   == Hull(MkPoints(tag, 4), <<0, 1, 2, 0, 2, 3>>)
hSparse(tag) == Hull(MkPoints(tag, MAX_VERTICES_PER_HULL + 1), <<0, 1, 2>>)
hDense(tag)  == Hull(MkPoints(tag, MAX_VERTICES_PER_HULL + 2),
                     StripFaces(MAX_VERTICES_PER_HULL + 2))
hBad(tag)    == Hull(MkPoints(tag, MAX_VERTICES_PER_HULL + 1),
                     <<0, 1, MAX_VERTICES_PER_HULL + 1>>)

VhacdOutputs ==
    { <<>>,
      <<hTri(1)>>,
      <<hTri(1), hQuad(2), hTri(3)>>,
      <<hSparse(1), hQuad(2)>>,
      <<hDense(1), hBad(2)>>,
      <<hTri(1), hQuad(2), hTri(3), hQuad(4)>> }

\* A triangle mesh as trimesh holds it: vertex rows, how many of them some
\* face references, and the number of faces.
Mesh(verts, used, tris) == [verts |-> verts, used |-> used, tris |-> tris]

LoadedMeshes ==
    { Mesh(0, 0, 0), Mesh(3, 0, 0), Mesh(4, 3, 1), Mesh(400, 350, 600) }

\* Results of simplify_quadratic_decimation after the four cleanup calls.
DecimatedMeshes == { Mesh(0, 0, 0), Mesh(200, 200, 300) }

DecimationOutcomes ==
    {[raised |-> TRUE, simp |-> Mesh(0, 0, 0)]}
    \cup {[raised |-> FALSE, simp |-> m] : m \in DecimatedMeshes}

----------------------------------------------------------------------------
(* generate_meshshape.py: simplify_mesh, to_compact_arrays                 *)

\* Variant: the result of the decimation is returned as it is, without the
\* fallbacks to the input mesh.
simplify_mesh_no_fallback(config, mesh, dec) ==
    IF mesh.tris = 0 THEN mesh
    ELSE IF mesh.tris <= decide_target_triangles(config, mesh.tris) THEN mesh
    ELSE dec.simp

\* dec is what the try-block of simplify_mesh produced: it raised, or the
\* decimated and cleaned mesh simp.  Everything that can raise (the
\* decimation and the four cleanup calls) is inside the try-block, whose
\* "except Exception" returns the input mesh.
simplify_mesh(config, mesh, dec) ==
    IF mesh.tris = 0 THEN mesh
    ELSE IF mesh.tris <= decide_target_triangles(config, mesh.tris) THEN mesh
    ELSE IF dec.raised THEN mesh
    ELSE IF dec.simp.tris = 0 THEN mesh
    ELSE dec.simp

\* remove_unreferenced_vertices, then the two arrays (as their sizes).
to_compact_arrays(mesh) ==
    IF mesh.used = 0 \/ mesh.tris = 0
    THEN [verts |-> mesh.used, indices |-> 0]
    ELSE [verts |-> mesh.used, indices |-> 3 * mesh.tris]

----------------------------------------------------------------------------
(* SpecSimplify: simplify_mesh on one mesh                                 *)

MaxMeshTris == 4        \* small triangle counts: 0..MaxMeshTris

\* Meshes of n triangles: the small ones, and those around the Release floor
\* of 500 triangles.
SimplifyTris == (0..MaxMeshTris) \cup {TARGET_TRIS_RELEASE_MIN,
                                       TARGET_TRIS_RELEASE_MIN + 1}
MeshOfTris(n) == IF n = 0 THEN Mesh(0, 0, 0) ELSE Mesh(n + 2, n + 2, n)

SimplifyOutcomes ==
    {[raised |-> TRUE, simp |-> Mesh(0, 0, 0)]}
    \cup {[raised |-> FALSE, simp |-> MeshOfTris(k)] : k \in 0..MaxMeshTris}

InitSimplify ==
    /\ spc = "input"
    /\ s_config \in Configs
    /\ s_mesh \in {MeshOfTris(n) : n \in SimplifyTris}
    /\ s_dec \in SimplifyOutcomes
    /\ s_out = Mesh(0, 0, 0)
    /\ IdleClamp /\ IdlePick /\ IdleTarget /\ IdleRun

Simplify ==
    /\ spc = "input"
    /\ s_out' = simplify_mesh(s_config, s_mesh, s_dec)
    /\ spc' = "simplified"
    /\ UNCHANGED <<s_config, s_mesh, s_dec, clampVars, pickVars, targetVars,
                   runVars>>

NextSimplify == Simplify

SpecSimplify == InitSimplify /\ [][NextSimplify]_vars

----------------------------------------------------------------------------
(* generate_convex.py: main (max_hulls), write_convex_binary               *)

MAX_HULLS_DEBUG   == 8
MAX_HULLS_RELEASE == 3

max_hulls_of(config) ==
    IF config = "debug" THEN MAX_HULLS_DEBUG ELSE MAX_HULLS_RELEASE


\* The loop over the hulls, from hull k on: clamp, then write the record.
\* A clamp that raises ends the loop with the records written so far.
RECURSIVE write_hulls(_, _, _, _)
write_hulls(hulls, k, records, events) ==
    IF k > Len(hulls)
    THEN [raised |-> FALSE, records |-> records, events |-> events]
    ELSE LET h == hulls[k]
             r == clamp_hull_vertex_count(h.points, h.faces, MAX_VERTICES_PER_HULL)
         IN  IF r.raised
             THEN [raised |-> TRUE, records |-> records,
                   events |-> events \o <<"clamp", "raise">>]
             ELSE write_hulls(hulls, k + 1, Append(records, HullRecord(r)),
                              events \o <<"clamp", "record">>)

\* open(dst, "wb") truncates dst and the header is written; the hull loop
\* follows inside the with-block, which closes the file either way.
write_convex_binary(hulls, mtime) ==
    LET w == write_hulls(hulls, 1, <<>>, <<"open">>)
    IN  [raised |-> w.raised,
         file   |-> CvxhFile(mtime, Len(hulls), w.records),
         events |-> IF w.raised THEN w.events ELSE w.events \o <<"Wrote">>]

\* Lines 234-235 of process_one_model for a non-empty decomposition.
select_and_write(outs, config, mtime) ==
    write_convex_binary(pick_top_hulls(outs, max_hulls_of(config)), mtime)

----------------------------------------------------------------------------
(* generate_meshshape.py: write_mesh_binary                                *)

write_mesh_binary(arrays, mtime) ==
    [file   |-> JmshFile(mtime, arrays.verts, arrays.indices),
     events |-> <<"open", "Wrote">>]

\* generate_convex.process_one_model: "if not vhacd_outputs"
vhacd_is_empty(outs) == Len(outs) = 0

\* Variant: the emptiness test is left out.
mesh_never_empty(arrays) == FALSE

\* generate_meshshape.process_one_model:
\* "if verts.shape[0] == 0 or indices.size == 0"
mesh_is_empty(arrays) == arrays.verts = 0 \/ arrays.indices = 0

----------------------------------------------------------------------------
(* Spec: one run of main() of one of the two pipelines                     *)

\* What process_one_model can do with a non-empty decomposition, per CONFIG
\* and per time of the write.
ConvexWrites ==
    [config \in Configs |->
        [t \in 1..(MaxMtime + MaxFiles) |->
            {select_and_write(outs, config, t) :
                outs \in {o \in VhacdOutputs : ~vhacd_is_empty(o)}}]]

Init ==
    /\ pipeline \in {"convex", "meshshape"}
    /\ CONFIG \in Configs
    /\ \E w \in WalkOrders :
         \E m \in [1..Len(w) -> 1..MaxMtime] :
            /\ \A i \in 1..Len(w) :
                 lower(w[i].suffix) \notin SUPPORTED_EXT => m[i] = 1
            /\ tree = [i \in 1..Len(w) |-> [rel |-> w[i], mtime |-> m[i]]]
    /\ fs \in [DstPaths(pipeline, tree) ->
                 {NoFile} \cup {EarlierArtifact(pipeline, t) : t \in 1..MaxMtime}]
    /\ \A i \in 1..Len(tree) :
         (\A j \in Sources(tree) :
             DstOf(pipeline, tree[j].rel) # DstOf(pipeline, tree[i].rel))
         => fs[DstOf(pipeline, tree[i].rel)] = NoFile
    /\ fs0 = fs
    /\ run = "first"
    /\ now = MaxMtime
    /\ pos = 0
    /\ pc = "walk"
    /\ log = [i \in 1..Len(tree) |-> <<>>]
    /\ exitcode = "running"
    /\ IdleClamp /\ IdlePick /\ IdleTarget /\ IdleSimp

\* The entry the walk hands out next, and where its artifact goes.
src == tree[pos + 1]
dst == DstOf(pipeline, src.rel)

\* process_one_model(src) is called and gets past the staleness check.
Processing ==
    /\ pc = "walk" /\ pos < Len(tree)
    /\ lower(src.rel.suffix) \in SUPPORTED_EXT
    /\ ~UpToDate(fs, dst, src)

\* process_one_model returned: the loop of main goes on.
Returns(events) ==
    /\ pos' = pos + 1
    /\ log' = [log EXCEPT ![pos + 1] = events]
    /\ UNCHANGED <<pc, exitcode>>

\* An exception nobody catches: it leaves process_one_model and main.
Propagates(events) ==
    /\ pos' = pos + 1
    /\ log' = [log EXCEPT ![pos + 1] = events]
    /\ pc' = "aborted"
    /\ exitcode' = "exception"

\* main: the walk is exhausted.
WalkEnd ==
    /\ pc = "walk" /\ pos = Len(tree)
    /\ pc' = "done" /\ exitcode' = "ok"
    /\ UNCHANGED <<pipeline, CONFIG, tree, run, pos, fs, fs0, now, log>>
    /\ UNCHANGED <<clampVars, pickVars, targetVars, simpVars>>

\* main: a file whose lowered suffix is not supported is passed over.
WalkIgnore ==
    /\ pc = "walk" /\ pos < Len(tree)
    /\ lower(src.rel.suffix) \notin SUPPORTED_EXT
    /\ Returns(<<"ignored">>)
    /\ UNCHANGED <<pipeline, CONFIG, tree, run, fs, fs0, now>>
    /\ UNCHANGED <<clampVars, pickVars, targetVars, simpVars>>

\* process_one_model: the artifact is up to date, [SKIP] and return.
SkipUpToDate ==
    /\ pc = "walk" /\ pos < Len(tree)
    /\ lower(src.rel.suffix) \in SUPPORTED_EXT
    /\ UpToDate(fs, dst, src)
    /\ Returns(<<"SKIP">>)
    /\ UNCHANGED <<pipeline, CONFIG, tree, run, fs, fs0, now>>
    /\ UNCHANGED <<clampVars, pickVars, targetVars, simpVars>>

\* process_one_model, either pipeline: load_mesh raises (the source is
\* unreadable or unparseable).
LoadFails ==
    /\ Processing
    /\ Propagates(<<"Processing", "load_mesh", "raise">>)
    /\ UNCHANGED <<pipeline, CONFIG, tree, run, fs, fs0, now>>
    /\ UNCHANGED <<clampVars, pickVars, targetVars, simpVars>>

\* generate_convex.process_one_model: run_vhacd raises.
VhacdFails ==
    /\ Processing /\ pipeline = "convex"
    /\ Propagates(<<"Processing", "load_mesh", "run_vhacd", "raise">>)
    /\ UNCHANGED <<pipeline, CONFIG, tree, run, fs, fs0, now>>
    /\ UNCHANGED <<clampVars, pickVars, targetVars, simpVars>>

\* generate_convex.process_one_model: "if not vhacd_outputs", [WARN], return.
VhacdEmpty ==
    /\ Processing /\ pipeline = "convex"
    /\ \E outs \in VhacdOutputs : vhacd_is_empty(outs)
    /\ Returns(<<"Processing", "load_mesh", "run_vhacd", "WARN">>)
    /\ UNCHANGED <<pipeline, CONFIG, tree, run, fs, fs0, now>>
    /\ UNCHANGED <<clampVars, pickVars, targetVars, simpVars>>

\* generate_convex.process_one_model: hulls are picked and written; the
\* exception of a clamp that raises leaves the file as written so far.
WriteConvex ==
    /\ Processing /\ pipeline = "convex"
    /\ \E w \in ConvexWrites[CONFIG][now + 1] :
         LET events == <<"Processing", "load_mesh", "run_vhacd",
                         "pick_top_hulls">> \o w.events
         IN  /\ fs' = [fs EXCEPT ![dst] = w.file]
             /\ IF w.raised THEN Propagates(events) ELSE Returns(events)
    /\ now' = now + 1
    /\ UNCHANGED <<pipeline, CONFIG, tree, run, fs0>>
    /\ UNCHANGED <<clampVars, pickVars, targetVars, simpVars>>

\* generate_meshshape.process_one_model: load_mesh (load, then the cleanup
\* passes), simplify_mesh, to_compact_arrays; nothing left: [WARN], return.
MeshEmpty ==
    /\ Processing /\ pipeline = "meshshape"
    /\ \E mesh \in LoadedMeshes, dec \in DecimationOutcomes :
         mesh_is_empty(to_compact_arrays(simplify_mesh(CONFIG, mesh, dec)))
    /\ Returns(<<"Processing", "load_mesh", "cleanup", "simplify_mesh",
                 "to_compact_arrays", "WARN">>)
    /\ UNCHANGED <<pipeline, CONFIG, tree, run, fs, fs0, now>>
    /\ UNCHANGED <<clampVars, pickVars, targetVars, simpVars>>

\* generate_meshshape.process_one_model: the arrays are written.
WriteMesh ==
    /\ Processing /\ pipeline = "meshshape"
    /\ \E mesh \in LoadedMeshes, dec \in DecimationOutcomes :
         LET a == to_compact_arrays(simplify_mesh(CONFIG, mesh, dec))
             w == write_mesh_binary(a, now + 1)
         IN  /\ ~mesh_is_empty(a)
             /\ fs' = [fs EXCEPT ![dst] = w.file]
             /\ Returns(<<"Processing", "load_mesh", "cleanup", "simplify_mesh",
                          "to_compact_arrays">> \o w.events)
    /\ now' = now + 1
    /\ UNCHANGED <<pipeline, CONFIG, tree, run, fs0>>
    /\ UNCHANGED <<clampVars, pickVars, targetVars, simpVars>>

\* The script is started once more after a run that ended without an
\* exception: same CONFIG, same model tree, the artifacts as the first run
\* left them; nothing but the artifacts is carried over.
RunAgain ==
    /\ pc = "done" /\ run = "first"
    /\ run' = "again"
    /\ pos' = 0 /\ pc' = "walk" /\ exitcode' = "running"
    /\ log' = [i \in 1..Len(tree) |-> <<>>]
    /\ fs0' = fs
    /\ UNCHANGED <<pipeline, CONFIG, tree, fs, now>>
    /\ UNCHANGED <<clampVars, pickVars, targetVars, simpVars>>

Next ==
    \/ WalkEnd \/ WalkIgnore \/ SkipUpToDate
    \/ LoadFails \/ VhacdFails \/ VhacdEmpty \/ WriteConvex
    \/ MeshEmpty \/ WriteMesh
    \/ RunAgain

Spec == Init /\ [][Next]_vars

----------------------------------------------------------------------------
(* Properties                                                              *)

VertexCount(h) == Len(h.points)

\* C1 (SpecClamp).  A well-formed hull with more vertices than the budget
\* comes back, without an exception, as a well-formed hull of at most
\* `budget` vertices: every index is >= 0 and < the new vertex count and the
\* index count is 0 or a multiple of 3.
C1_ClampInvariant ==
    (cpc # "input" /\ WellFormed(c_in) /\ VertexCount(c_in) > c_max)
    => /\ ~c_out.raised
       /\ VertexCount(c_out) <= c_max
       /\ Len(c_out.faces) % 3 = 0
       /\ \A i \in 1..Len(c_out.faces) :
            c_out.faces[i] >= 0 /\ c_out.faces[i] < VertexCount(c_out)

\* A hull over the real budget of 256 whose triangles reference more than
\* 256 vertices has been truncated, and some triangles survived.
C1_Witness ==
    /\ cpc = "clamped" /\ c_max = 256
    /\ WellFormed(c_in) /\ VertexCount(c_in) > 256
    /\ Cardinality(Range(c_in.faces)) > 256
    /\ VertexCount(c_out) = 256 /\ Len(c_out.faces) > 0

\* C2 (SpecClamp).  A hull within budget comes back with the same vertex
\* array and the same index array, unreferenced vertices included; clamping
\* the result of any clamp once more returns that result.
C2_ClampIdempotent ==
    /\ (cpc # "input" /\ VertexCount(c_in) <= c_max)
       => (~c_out.raised /\ c_out.points = c_in.points /\ c_out.faces = c_in.faces)
    /\ (cpc = "reclamped")
       => (~c_out2.raised /\ c_out2.points = c_out.points
           /\ c_out2.faces = c_out.faces)

\* A hull within budget that has an unreferenced vertex went through both
\* calls.
C2_Witness ==
    /\ cpc = "reclamped" /\ VertexCount(c_in) <= c_max
    /\ c_in.faces # <<>>
    /\ \E k \in 0..(VertexCount(c_in) - 1) : k \notin Range(c_in.faces)

\* C3 (Spec).  A step of the walk that takes a supported file: if the
\* artifact exists and is at least as new as the source, the file is logged
\* as skipped, nothing else is called for it and nothing is written; else
\* the file is logged as processed and load_mesh is called for it.
C3_StalenessSkip ==
    [][ (pc = "walk" /\ pos' = pos + 1
         /\ lower(tree[pos + 1].rel.suffix) \in SUPPORTED_EXT)
        => LET s == tree[pos + 1]
               d == DstOf(pipeline, s.rel)
           IN  IF fs[d].exists /\ fs[d].mtime >= s.mtime
               THEN log'[pos + 1] = <<"SKIP">> /\ fs' = fs /\ pc' = "walk"
               ELSE /\ Len(log'[pos + 1]) >= 2
                    /\ log'[pos + 1][1] = "Processing"
                    /\ log'[pos + 1][2] = "load_mesh" ]_vars

\* One file was skipped because its artifact is exactly as old as it is,
\* and the next one, with an older artifact, was rebuilt.
C3_Witness ==
    /\ pos = 2 /\ log[1] = <<"SKIP">>
    /\ fs0[DstOf(pipeline, tree[1].rel)].exists
    /\ fs0[DstOf(pipeline, tree[1].rel)].mtime = tree[1].mtime
    /\ fs0[DstOf(pipeline, tree[2].rel)].exists
    /\ fs0[DstOf(pipeline, tree[2].rel)].mtime < tree[2].mtime
    /\ "Wrote" \in Range(log[2])

\* C4 (Spec).  A file whose load fails does not keep the driver from the
\* remaining files: when the run has ended, every walk entry was handled.
C4_BatchIsolation ==
    (pc # "walk") => \A i \in 1..Len(tree) : log[i] # <<>>

\* C5 (Spec).  A file that fails before serialization has completed (in
\* load, decomposition, selection or hull clamping) leaves its artifact as it
\* was before the run, no other file of the run having that artifact path;
\* and for no file is a hull clamped after the destination has been opened.
C5_NoPartialArtifact ==
    /\ (pc = "aborted")
       => LET d == DstOf(pipeline, tree[pos].rel)
          IN  (\A j \in 1..(pos - 1) : DstOf(pipeline, tree[j].rel) # d)
              => fs[d] = fs0[d]
    /\ \A i \in 1..pos :
         \A a, b \in 1..Len(log[i]) :
            (a < b /\ log[i][a] = "open") => log[i][b] # "clamp"

\* C6 (Spec).  Two distinct discovered source files never map to the same
\* artifact path.
C6_OneWriterPerPath ==
    \A i, j \in Sources(tree) :
        i # j => DstOf(pipeline, tree[i].rel) # DstOf(pipeline, tree[j].rel)

\* C7 (SpecPick).  pick_top_hulls returns min(K, n) of the candidates, in
\* descending order of vertex count; equal counts keep their original order;
\* every returned hull has at least the vertex count of every hull left out,
\* and among equal counts the earlier candidates are the ones returned.
\* Counts [50, 80, 50] with K = 2 give the second, then the first candidate.
PosIn(h) == CHOOSE i \in 1..Len(p_in) : p_in[i] = h

C7_SelectorStable ==
    (ppc = "picked")
    => /\ Len(p_out) = IF p_k <= Len(p_in) THEN p_k ELSE Len(p_in)
       /\ \A j \in 1..Len(p_out) : p_out[j] \in Range(p_in)
       /\ \A j, k \in 1..Len(p_out) :
            j < k => \/ VertexCount(p_out[j]) > VertexCount(p_out[k])
                     \/ /\ VertexCount(p_out[j]) = VertexCount(p_out[k])
                        /\ PosIn(p_out[j]) < PosIn(p_out[k])
       /\ \A h \in Range(p_out), g \in Range(p_in) \ Range(p_out) :
            \/ VertexCount(h) > VertexCount(g)
            \/ VertexCount(h) = VertexCount(g) /\ PosIn(h) < PosIn(g)
       /\ ( /\ Len(p_in) = 3 /\ p_k = 2
            /\ VertexCount(p_in[1]) = 50 /\ VertexCount(p_in[2]) = 80
            /\ VertexCount(p_in[3]) = 50 )
          => p_out = <<p_in[2], p_in[1]>>

\* The documented example has been selected.
C7_Witness ==
    /\ ppc = "picked" /\ Len(p_in) = 3 /\ p_k = 2
    /\ VertexCount(p_in[1]) = 50 /\ VertexCount(p_in[2]) = 80
    /\ VertexCount(p_in[3]) = 50
    /\ Len(p_out) = 2

\* C8 (Spec).  The CVXH artifact just written completely by the convex
\* pipeline has its records in descending order of the written vertexCount,
\* at most max_hulls of them, each of at most 256 vertices, and a hullCount
\* equal to the number of records.
C8_ConvexHullSet ==
    (pipeline = "convex" /\ pos >= 1 /\ "Wrote" \in Range(log[pos]))
    => LET a == fs[DstOf(pipeline, tree[pos].rel)]
       IN  /\ a.hullCount = Len(a.records)
           /\ Len(a.records) <= (IF CONFIG = "debug" THEN 8 ELSE 3)
           /\ \A i \in 1..Len(a.records) : a.records[i].vertexCount <= 256
           /\ \A i, j \in 1..Len(a.records) :
                i < j => a.records[i].vertexCount >= a.records[j].vertexCount

\* C9 as stated (SpecTarget): the target is the clamped round() of the
\* product, whichever way round() breaks a tie.
RoundHalfUp(n, num, den) == (2 * n * num + den) \div (2 * den)
RoundHalfEven(n, num, den) ==
    LET q == (n * num) \div den
        r2 == 2 * ((n * num) % den)
    IN  IF r2 > den \/ (r2 = den /\ q % 2 = 1) THEN q + 1 ELSE q

ClampTo(x, lo, hi) == IF x < lo THEN lo ELSE IF x > hi THEN hi ELSE x

RoundedTarget(config, x) ==
    IF config = "debug" THEN ClampTo(x, 1, 8000)
    ELSE LET c == ClampTo(x, 500, 3000) IN IF c < 1 THEN 1 ELSE c

C9_RoundedTarget ==
    (tpc = "decided")
    => LET num == IF t_config = "debug" THEN 60 ELSE 25
       IN  t_out \in {RoundedTarget(t_config, RoundHalfUp(t_orig, num, 100)),
                      RoundedTarget(t_config, RoundHalfEven(t_orig, num, 100))}

\* C9 as amended (SpecTarget): the product is truncated, not rounded.  With
\* f the integer for which f <= origTris * rate < f + 1, Debug gives
\* clamp(f, 1, 8000) and Release max(1, clamp(f, 500, 3000)); 10000 gives
\* 6000 (Debug) and 2500 (Release), 1000 gives 500 under Release.
C9_TruncatedTarget ==
    (tpc = "decided")
    => /\ IF t_config = "debug"
          THEN IF 6 * t_orig < 10 THEN t_out = 1              \* f < 1
               ELSE IF 6 * t_orig >= 80000 THEN t_out = 8000  \* f >= 8000
               ELSE 10 * t_out <= 6 * t_orig /\ 6 * t_orig < 10 * (t_out + 1)
          ELSE IF t_orig < 2004 THEN t_out = 500              \* f <= 500
               ELSE IF t_orig >= 12000 THEN t_out = 3000      \* f >= 3000
               ELSE 4 * t_out <= t_orig /\ t_orig < 4 * (t_out + 1)
       /\ (t_orig = 10000 /\ t_config = "debug") => t_out = 6000
       /\ (t_orig = 10000 /\ t_config = "release") => t_out = 2500
       /\ (t_orig = 1000 /\ t_config = "release") => t_out = 500

\* A Debug target where truncating and rounding differ: 3 * 0.6 = 1.8.
C9_Witness ==
    tpc = "decided" /\ t_config = "debug" /\ t_orig = 3 /\ t_out = 1

\* C10 (Spec).  A file whose result is empty has a warning logged and
\* nothing opened or written for it, its artifact is as it was before the
\* run (no other file of the run having that artifact path), and the run is
\* not ended by it; no artifact holds a JMSH container without vertices or
\* indices or a CVXH container without hulls.
C10_EmptyIsSkip ==
    /\ \A i \in 1..pos :
         "WARN" \in Range(log[i])
         => /\ log[i][Len(log[i])] = "WARN"
            /\ "open" \notin Range(log[i]) /\ "Wrote" \notin Range(log[i])
            /\ (i = pos => pc \in {"walk", "done"})
            /\ LET d == DstOf(pipeline, tree[i].rel)
               IN  (\A j \in 1..Len(tree) :
                        j # i => DstOf(pipeline, tree[j].rel) # d)
                   => fs[d] = fs0[d]
    /\ \A d \in DOMAIN fs :
         fs[d].exists
         => IF fs[d].magic = "JMSH"
            THEN fs[d].vertexCount > 0 /\ fs[d].indexCount > 0
            ELSE fs[d].hullCount > 0

\* An empty result was warned about and the next file was built afterwards.
C10_Witness ==
    /\ pos = 2 /\ "WARN" \in Range(log[1]) /\ "Wrote" \in Range(log[2])

\* The vertices some triangle corner refers to, and the original index of a
\* vertex of the result (vertex positions of one array are distinct).
Referenced(h) == Range(h.faces)
OrigIndex(h, p) == (CHOOSE k \in 1..Len(h.points) : h.points[k] = p) - 1

\* C11 (SpecClamp).  A well-formed hull with more vertices than the budget
\* whose triangles reference at most `budget` vertices comes back as exactly
\* the referenced vertices, in ascending order of original index, with every
\* triangle kept in its place and every corner referring to the vertex
\* position it referred to before.
C11_ClampCompaction ==
    ( /\ cpc # "input" /\ WellFormed(c_in)
      /\ VertexCount(c_in) > c_max
      /\ Cardinality(Referenced(c_in)) <= c_max )
    => /\ ~c_out.raised
       /\ VertexCount(c_out) = Cardinality(Referenced(c_in))
       /\ Range(c_out.points) = {c_in.points[k + 1] : k \in Referenced(c_in)}
       /\ \A i, j \in 1..VertexCount(c_out) :
            i < j => OrigIndex(c_in, c_out.points[i]) < OrigIndex(c_in, c_out.points[j])
       /\ Len(c_out.faces) = Len(c_in.faces)
       /\ \A i \in 1..Len(c_in.faces) :
            c_out.points[c_out.faces[i] + 1] = c_in.points[c_in.faces[i] + 1]

\* A 257- or 258-vertex hull with one triangle whose corners are not listed
\* in ascending order was compacted to three vertices and renumbered.
C11_Witness ==
    /\ cpc = "clamped" /\ c_max = 256
    /\ WellFormed(c_in) /\ VertexCount(c_in) > 256
    /\ Cardinality(Referenced(c_in)) = 3
    /\ c_in.faces[2] > c_in.faces[3]
    /\ VertexCount(c_out) = 3 /\ c_out.faces # c_in.faces

\* The `budget` referenced vertices with the smallest original indices, and
\* the flat positions of the corners of the triangles that lie within them.
SmallestReferenced(h, budget) ==
    {k \in Referenced(h) :
        Cardinality({r \in Referenced(h) : r < k}) < budget}
SurvivingCorners(h, budget) ==
    LET K == SmallestReferenced(h, budget)
    IN  SelectSeq([i \in 1..Len(h.faces) |-> i],
                  LAMBDA i : \A c \in 1..3 :
                      h.faces[3 * ((i - 1) \div 3) + c] \in K)

\* C12 (SpecClamp).  A well-formed hull whose triangles reference more
\* vertices than the budget comes back as exactly the `budget` referenced
\* vertices of smallest original index; exactly the triangles with all three
\* corners among them are kept, in their order and referring to the same
\* vertex positions; when there is no such triangle the result is those
\* `budget` vertices with an empty index array.
C12_ClampTruncation ==
    ( /\ cpc # "input" /\ WellFormed(c_in)
      /\ Cardinality(Referenced(c_in)) > c_max )
    => LET K == SmallestReferenced(c_in, c_max)
           surv == SurvivingCorners(c_in, c_max)
       IN  /\ ~c_out.raised
           /\ VertexCount(c_out) = c_max
           /\ Range(c_out.points) = {c_in.points[k + 1] : k \in K}
           /\ Len(c_out.faces) = Len(surv)
           /\ \A j \in 1..Len(surv) :
                c_out.points[c_out.faces[j] + 1] = c_in.points[c_in.faces[surv[j]] + 1]
           /\ (surv = <<>>) => c_out.faces = <<>>

\* A 258-vertex hull all of whose triangles use the last vertex was cut to
\* its first 256 vertices, no triangle surviving.
C12_Witness ==
    /\ cpc = "clamped" /\ c_max = 256
    /\ WellFormed(c_in) /\ Cardinality(Referenced(c_in)) > 256
    /\ c_in.faces # <<>>
    /\ VertexCount(c_out) = 256 /\ c_out.faces = <<>>

\* C15 (SpecClamp).  A well-formed hull of at least one vertex comes back,
\* without an exception, as a hull of at least one vertex.
C15_ClampKeepsAVertex ==
    (cpc # "input" /\ WellFormed(c_in) /\ VertexCount(c_in) >= 1)
    => (~c_out.raised /\ VertexCount(c_out) >= 1)

\* C13 (SpecSimplify).  simplify_mesh returns: the mesh it was given when
\* that has no more triangles than the target, when the decimation or the
\* cleanup after it raises, or when the decimated mesh has no triangle; else
\* the decimated mesh, which has at least one triangle.
C13_SimplifyNeverFails ==
    (spc = "simplified")
    => LET target == decide_target_triangles(s_config, s_mesh.tris)
       IN  IF \/ s_mesh.tris <= target
              \/ s_dec.raised
              \/ s_dec.simp.tris = 0
           THEN s_out = s_mesh
           ELSE s_out = s_dec.simp /\ s_out.tris >= 1

\* A mesh above its target whose decimation raised came back unchanged.
C13_Witness ==
    /\ spc = "simplified"
    /\ s_mesh.tris > decide_target_triangles(s_config, s_mesh.tris)
    /\ s_dec.raised
    /\ s_out = s_mesh

\* C14 (Spec).  For every file taken by either pipeline: decomposition or
\* simplification is entered only after the load and, after it, the cleanup
\* of the mesh; the destination is opened only after decomposition or
\* simplification, and no load, cleanup, decomposition or simplification
\* follows the opening.
C14_StageOrder ==
    \A i \in 1..pos :
        LET l == log[i]
            At(e) == {a \in 1..Len(l) : l[a] = e}
            Stages == {"load_mesh", "cleanup", "run_vhacd", "simplify_mesh"}
        IN  /\ \A b \in At("run_vhacd") \cup At("simplify_mesh") :
                 \E a \in At("load_mesh"), c \in At("cleanup") : a < c /\ c < b
            /\ \A o \in At("open") :
                 /\ \E b \in At("run_vhacd") \cup At("simplify_mesh") : b < o
                 /\ \A x \in (o + 1)..Len(l) : l[x] \notin Stages

\* C16 (Spec).  In a run that immediately follows a run that ended without
\* an exception, over the same model tree, every supported file is logged as
\* skipped, nothing else is called for it and no artifact is touched.
C16_IncrementalFixpoint ==
    (run = "again")
    => /\ \A i \in 1..pos :
            lower(tree[i].rel.suffix) \in SUPPORTED_EXT => log[i] = <<"SKIP">>
       /\ fs = fs0

====
